---- MODULE Spec2Model ----
(***************************************************************************)
(* ApiObjectMetadataDefinition (packages/cdk8s/src/metadata.ts): the       *)
(* metadata record of an API object.  JavaScript objects are modelled as   *)
(* heap cells, because the constructor stores the references it is given   *)
(* (options, options.labels, options.annotations) and the mutators write   *)
(* through them.                                                           *)
(***************************************************************************)
EXTENDS Integers, Sequences, FiniteSets, TLC

VARIABLES
    heap,       \* address -> mapping (own enumerable properties of the object)
    rec,        \* record id -> the fields of the ApiObjectMetadataDefinition
    ctor,       \* record id -> what the constructor was given (history)
    labelLog,   \* record id -> key -> value last passed to addLabel on it
    annLog,     \* record id -> key -> value last passed to addAnnotation on it
    added,      \* record id -> key -> value last passed to add on it
    alone,      \* record id -> every mutator call since its construction
                \*   was a call on this record
    lastDoc,    \* record id -> the document its last toJson call returned
    snapValid,  \* record id -> lastDoc was returned and no mutator ran since
    calls       \* number of method calls made so far

vars == <<heap, rec, ctor, labelLog, annLog, added, alone, lastDoc,
          snapValid, calls>>

(***************************************************************************)
(* Bounds and input sets.                                                  *)
(***************************************************************************)
MaxCalls == 3

RecIds == {"a", "b"}

(***************************************************************************)
(* JavaScript values, tagged.                                              *)
(***************************************************************************)
Undef == [t |-> "undef"]
Str(s) == [t |-> "str", s |-> s]
Num(n) == [t |-> "num", n |-> n]
Arr(e) == [t |-> "arr", e |-> e]
Obj(m) == [t |-> "obj", m |-> m]
Ref(a) == [t |-> "ref", a |-> a]
Lazy(p) == [t |-> "lazy", p |-> p]

EmptyMap == [k \in {} |-> Undef]

\* m[k] = v on the own properties of an object
Put(m, k, v) == [x \in (DOMAIN m) \cup {k} |-> IF x = k THEN v ELSE m[x]]

\* m[k]: the own property, undefined when there is none
Get(m, k) == IF k \in DOMAIN m THEN m[k] ELSE Undef

\* x ?? d
Nullish(x) == x.t = "undef"

(***************************************************************************)
(* Addresses.  The caller's objects exist from the start; each record has  *)
(* three addresses of its own for the objects its constructor allocates.   *)
(***************************************************************************)
Own(r, f) == [o |-> r, f |-> f]
Caller(f) == [o |-> "caller", f |-> f]

OwnFields == {"options", "labels", "annotations"}
CallerBundles == {Caller("empty"), Caller("foo"), Caller("same")}
CallerMaps == {Caller("fooLabels"), Caller("sameMap")}
CallerObjs == CallerBundles \cup CallerMaps
Addrs == CallerObjs \cup {Own(r, f) : r \in RecIds, f \in OwnFields}

NoOptions == Caller("none")

TypedKeys == {"name", "namespace", "annotations", "labels"}

(***************************************************************************)
(* The collaborators of toJson.  _resolve.ts and _util.ts are not part of  *)
(* the sources at hand; both are modelled from their description:          *)
(* resolve substitutes every deferred value by what it produces, at every  *)
(* depth, and returns new objects; sanitizeValue removes, bottom-up, every *)
(* entry that is absent, an empty mapping or an empty sequence.            *)
(***************************************************************************)
RECURSIVE resolve(_, _)
resolve(h, v) ==
    CASE v.t = "lazy" -> resolve(h, v.p)
      [] v.t = "ref"  -> Obj([k \in DOMAIN h[v.a] |-> resolve(h, h[v.a][k])])
      [] v.t = "obj"  -> Obj([k \in DOMAIN v.m |-> resolve(h, v.m[k])])
      [] v.t = "arr"  -> Arr([i \in DOMAIN v.e |-> resolve(h, v.e[i])])
      [] OTHER        -> v

IsKept(v) == v.t # "undef"

RECURSIVE sanitizeValue(_, _)
sanitizeValue(v, options) ==
    CASE v.t = "obj" ->
           LET s == [k \in DOMAIN v.m |-> sanitizeValue(v.m[k], options)]
               keep == {k \in DOMAIN v.m : IsKept(s[k])}
           IN  IF options.filterEmptyObjects /\ keep = {}
               THEN Undef
               ELSE Obj([k \in keep |-> s[k]])
      [] v.t = "arr" ->
           LET s == [i \in DOMAIN v.e |-> sanitizeValue(v.e[i], options)]
               e == SelectSeq(s, IsKept)
           IN  IF options.filterEmptyArrays /\ e = <<>>
               THEN Undef
               ELSE Arr(e)
      [] OTHER -> v

(***************************************************************************)
(* toJson: { ...this._additionalAttributes, name, namespace, annotations,  *)
(* labels }, resolved and sanitized.                                       *)
(***************************************************************************)
\* the spread written last: { name, namespace, ..., ...this._additionalAttributes }
MergedSpreadLast(h, rc) ==
    LET typed == ("name" :> rc.name) @@ ("namespace" :> rc.namespace)
                 @@ ("annotations" :> Ref(rc.annotations))
                 @@ ("labels" :> Ref(rc.labels))
    IN  h[rc.attrs] @@ typed

Merged(h, rc) ==
    Put(Put(Put(Put(h[rc.attrs],
        "name", rc.name),
        "namespace", rc.namespace),
        "annotations", Ref(rc.annotations)),
        "labels", Ref(rc.labels))

\* filterEmptyArrays left out
sanitizeKeepArrays(x) ==
    sanitizeValue(x, [filterEmptyArrays |-> FALSE, filterEmptyObjects |-> TRUE])

\* filterEmptyObjects left out
sanitizeKeepObjects(x) ==
    sanitizeValue(x, [filterEmptyArrays |-> TRUE, filterEmptyObjects |-> FALSE])

\* const sanitize = (x) => sanitizeValue(x, { filterEmptyArrays: true, ... })
sanitize(x) ==
    sanitizeValue(x, [filterEmptyArrays |-> TRUE, filterEmptyObjects |-> TRUE])

\* the returned document as a mapping (the empty mapping when nothing is left)
ToJsonOf(h, rc) ==
    LET d == sanitize(resolve(h, Obj(Merged(h, rc))))
    IN  IF d.t = "obj" THEN d.m ELSE EmptyMap

toJson(r) == ToJsonOf(heap, rec[r])

\* getLabel: this.labels[key]
GetLabelOf(h, rc, k) == Get(h[rc.labels], k)

getLabel(r, k) == GetLabelOf(heap, rec[r], k)

(***************************************************************************)
(* Inputs of the calls.                                                    *)
(***************************************************************************)
LabelInputs == {<<"app", "bar">>, <<"app", "x">>, <<"team", "x">>}
AnnotationInputs == {<<"team", "x">>, <<"app", "y">>}

NestedEmpty == Obj("a" :> Obj("b" :> Arr(<<>>)))
PartlyEmpty == Obj(("a" :> Num(1)) @@ ("b" :> Arr(<<>>)))
PlainNested == Obj("k" :> Arr(<<Num(1)>>))
ListOfEmpty == Arr(<<Obj("a" :> Undef), Num(1)>>)

\* add calls of the two-record runs
AddInputs ==
    {<<"custom", Num(42)>>, <<"labels", Ref(Caller("fooLabels"))>>}

\* add calls of the one-record runs: every kind of value, every typed key
AttributeInputs ==
    {<<"custom", Num(42)>>, <<"custom", Undef>>, <<"custom", Arr(<<>>)>>,
     <<"custom", NestedEmpty>>, <<"custom", PartlyEmpty>>,
     <<"custom", ListOfEmpty>>, <<"custom", Lazy(Str("late"))>>,
     <<"extra", Str("e")>>, <<"extra", PlainNested>>,
     <<"name", Str("other")>>, <<"namespace", Str("other")>>,
     <<"labels", Ref(Caller("fooLabels"))>>,
     <<"annotations", Ref(Caller("fooLabels"))>>}

(***************************************************************************)
(* Initial state: no record constructed yet; the caller holds three        *)
(* options bundles: {}, { name: "foo", labels: { app: "bar" } } and a      *)
(* bundle whose labels and annotations are one and the same mapping.       *)
(***************************************************************************)
InitHeap ==
    [a \in Addrs |->
        CASE a = Caller("foo") ->
               ("name" :> Str("foo")) @@ ("labels" :> Ref(Caller("fooLabels")))
          [] a = Caller("fooLabels") -> ("app" :> Str("bar"))
          [] a = Caller("same") ->
               ("namespace" :> Str("ns"))
               @@ ("labels" :> Ref(Caller("sameMap")))
               @@ ("annotations" :> Ref(Caller("sameMap")))
          [] OTHER -> EmptyMap]

NoRecord ==
    [made |-> FALSE, name |-> Undef, namespace |-> Undef,
     labels |-> NoOptions, annotations |-> NoOptions, attrs |-> NoOptions]

NoCtor ==
    [options |-> NoOptions, given |-> EmptyMap, name |-> Undef,
     namespace |-> Undef, labelKeys |-> {}]

Init ==
    /\ heap = InitHeap
    /\ rec = [r \in RecIds |-> NoRecord]
    /\ ctor = [r \in RecIds |-> NoCtor]
    /\ labelLog = [r \in RecIds |-> EmptyMap]
    /\ annLog = [r \in RecIds |-> EmptyMap]
    /\ added = [r \in RecIds |-> EmptyMap]
    /\ alone = [r \in RecIds |-> FALSE]
    /\ lastDoc = [r \in RecIds |-> EmptyMap]
    /\ snapValid = [r \in RecIds |-> FALSE]
    /\ calls = 0

(***************************************************************************)
(* constructor(options = { }): the references are stored, nothing is       *)
(* copied; a missing labels/annotations gets a new empty object, and a     *)
(* missing options a new empty object.                                     *)
(***************************************************************************)
NewRecord(h, r, o) ==
    LET opts == IF o = NoOptions THEN Own(r, "options") ELSE o
        l == Get(h[opts], "labels")
        n == Get(h[opts], "annotations")
    IN  [made |-> TRUE,
         name |-> Get(h[opts], "name"),
         labels |-> IF Nullish(l) THEN Own(r, "labels") ELSE l.a,
         annotations |-> IF Nullish(n) THEN Own(r, "annotations") ELSE n.a,
         namespace |-> Get(h[opts], "namespace"),
         attrs |-> opts]

Construct(r, o) ==
    /\ ~rec[r].made
    /\ rec' = [rec EXCEPT ![r] = NewRecord(heap, r, o)]
    /\ ctor' = [ctor EXCEPT ![r] =
                   [options |-> o,
                    given |-> resolve(heap, Ref(rec'[r].attrs)).m,
                    name |-> rec'[r].name,
                    namespace |-> rec'[r].namespace,
                    labelKeys |-> DOMAIN heap[rec'[r].labels]]]
    /\ alone' = [alone EXCEPT ![r] = TRUE]
    /\ UNCHANGED <<heap, labelLog, annLog, added, lastDoc, snapValid, calls>>

\* a mutator call was made: no earlier snapshot is the latest state any more
Stale == [r \in RecIds |-> FALSE]

\* a mutator call was made on r: the other records are no longer alone
Only(r) == [x \in RecIds |-> alone[x] /\ x = r]

\* addLabel(key, value): this.labels[key] = value
StoreLabel(h, rc, k, v) == [h EXCEPT ![rc.labels] = Put(@, k, Str(v))]

AddLabel(r, k, v) ==
    /\ rec[r].made
    /\ calls < MaxCalls
    /\ heap' = StoreLabel(heap, rec[r], k, v)
    /\ labelLog' = [labelLog EXCEPT ![r] = Put(@, k, Str(v))]
    /\ alone' = Only(r)
    /\ snapValid' = Stale
    /\ calls' = calls + 1
    /\ UNCHANGED <<rec, ctor, annLog, added, lastDoc>>

\* addAnnotation(key, value): this.annotations[key] = value
StoreAnnotation(h, rc, k, v) == [h EXCEPT ![rc.annotations] = Put(@, k, Str(v))]

AddAnnotation(r, k, v) ==
    /\ rec[r].made
    /\ calls < MaxCalls
    /\ heap' = StoreAnnotation(heap, rec[r], k, v)
    /\ annLog' = [annLog EXCEPT ![r] = Put(@, k, Str(v))]
    /\ alone' = Only(r)
    /\ snapValid' = Stale
    /\ calls' = calls + 1
    /\ UNCHANGED <<rec, ctor, labelLog, added, lastDoc>>

\* an add that inserts but never overwrites
StoreAttributeOnce(h, rc, k, v) ==
    IF k \in DOMAIN h[rc.attrs] THEN h ELSE [h EXCEPT ![rc.attrs] = Put(@, k, v)]

\* add(key, value): this._additionalAttributes[key] = value
StoreAttribute(h, rc, k, v) == [h EXCEPT ![rc.attrs] = Put(@, k, v)]

\* an add that also assigns the typed name and namespace
AddSetsTyped(r, k, v) ==
    /\ rec[r].made
    /\ calls < MaxCalls
    /\ heap' = [heap EXCEPT ![rec[r].attrs] = Put(@, k, v)]
    /\ rec' = [rec EXCEPT ![r] =
                  IF k \in {"name", "namespace"} THEN [@ EXCEPT ![k] = v] ELSE @]
    /\ added' = [added EXCEPT ![r] = Put(@, k, v)]
    /\ alone' = Only(r)
    /\ snapValid' = Stale
    /\ calls' = calls + 1
    /\ UNCHANGED <<ctor, labelLog, annLog, lastDoc>>

Add(r, k, v) ==
    /\ rec[r].made
    /\ calls < MaxCalls
    /\ heap' = StoreAttribute(heap, rec[r], k, v)
    /\ added' = [added EXCEPT ![r] = Put(@, k, v)]
    /\ alone' = Only(r)
    /\ snapValid' = Stale
    /\ calls' = calls + 1
    /\ UNCHANGED <<rec, ctor, labelLog, annLog, lastDoc>>

\* a toJson that assigns the typed fields into _additionalAttributes
\* (Object.assign) instead of spreading into a new object
ToJsonAssign(r) ==
    /\ rec[r].made
    /\ calls < MaxCalls
    /\ heap' = [heap EXCEPT ![rec[r].attrs] = Merged(heap, rec[r])]
    /\ lastDoc' = [lastDoc EXCEPT ![r] = ToJsonOf(heap, rec[r])]
    /\ snapValid' = [snapValid EXCEPT ![r] = TRUE]
    /\ calls' = calls + 1
    /\ UNCHANGED <<rec, ctor, labelLog, annLog, added, alone>>

\* toJson(): returns the document, changes nothing
ToJson(r) ==
    /\ rec[r].made
    /\ calls < MaxCalls
    /\ lastDoc' = [lastDoc EXCEPT ![r] = ToJsonOf(heap, rec[r])]
    /\ snapValid' = [snapValid EXCEPT ![r] = TRUE]
    /\ calls' = calls + 1
    /\ UNCHANGED <<heap, rec, ctor, labelLog, annLog, added, alone>>

Options == CallerBundles \cup {NoOptions}

\* two records, which may be given the same bundle
Next ==
    \/ \E r \in RecIds, o \in Options : Construct(r, o)
    \/ \E r \in RecIds, i \in LabelInputs : AddLabel(r, i[1], i[2])
    \/ \E r \in RecIds, i \in AnnotationInputs : AddAnnotation(r, i[1], i[2])
    \/ \E r \in RecIds, i \in AddInputs : Add(r, i[1], i[2])
    \/ \E r \in RecIds : ToJson(r)

Spec == Init /\ [][Next]_vars

\* attributes of every kind; the second record only adds plain attributes
NextAttributes ==
    \/ \E r \in RecIds, o \in Options : Construct(r, o)
    \/ AddLabel("a", "app", "x")
    \/ AddAnnotation("a", "team", "x")
    \/ \E i \in AttributeInputs : Add("a", i[1], i[2])
    \/ \E i \in AddInputs : Add("b", i[1], i[2])
    \/ ToJson("a")

SpecAttributes == Init /\ [][NextAttributes]_vars

(***************************************************************************)
(* Properties.                                                             *)
(***************************************************************************)
Made == {r \in RecIds : rec[r].made}

\* the typed mappings of a record, as toJson would emit them
LabelsEntry(r) == sanitize(Obj(heap[rec[r].labels]))
AnnotationsEntry(r) == sanitize(Obj(heap[rec[r].annotations]))

\* C1: the name, namespace, annotations and labels entries of the document
\* toJson returns come from the typed fields only: name and namespace are
\* the values given at construction (no entry when absent), labels and
\* annotations are the typed mappings, whatever add has stored under the
\* same keys of the additional attributes.
C1_TypedFieldsAuthoritative ==
    \A r \in Made :
        LET d == toJson(r)
        IN  /\ Get(d, "name") = ctor[r].name
            /\ Get(d, "namespace") = ctor[r].namespace
            /\ Get(d, "labels") = LabelsEntry(r)
            /\ Get(d, "annotations") = AnnotationsEntry(r)
            /\ snapValid[r] => lastDoc[r] = d

\* a record without a typed name whose additional attributes were given a
\* name and another labels mapping by add: its snapshot has neither key
C1_Witness ==
    \E r \in Made :
        /\ rec[r].name = Undef
        /\ Get(heap[rec[r].attrs], "name") = Str("other")
        /\ Get(heap[rec[r].attrs], "labels") = Ref(Caller("fooLabels"))
        /\ rec[r].labels # Caller("fooLabels")
        /\ snapValid[r]
        /\ "name" \notin DOMAIN lastDoc[r]
        /\ "labels" \notin DOMAIN lastDoc[r]

\* C9: the typed labels and annotations of a constructed record are always
\* mappings (objects), and its typed name and namespace are the values the
\* constructor was given.
C9_TypedFieldsStable ==
    \A r \in Made :
        /\ rec[r].labels \in Addrs
        /\ rec[r].annotations \in Addrs
        /\ rec[r].name = ctor[r].name
        /\ rec[r].namespace = ctor[r].namespace

\* a record built from a bundle that has a name and omits annotations, after
\* add("name", ...) and add("namespace", ...)
C9_Witness ==
    \E r \in Made :
        /\ ctor[r].options = Caller("foo")
        /\ rec[r].annotations = Own(r, "annotations")
        /\ {"name", "namespace"} \subseteq DOMAIN added[r]
        /\ rec[r].name = Str("foo")
        /\ rec[r].namespace = Undef

\* v holds, at some depth, an entry or element that is absent, an empty
\* mapping or an empty sequence
RECURSIVE HasEmpty(_)
HasEmpty(v) ==
    CASE v.t = "obj" ->
           \E k \in DOMAIN v.m :
               \/ v.m[k].t = "undef"
               \/ v.m[k].t = "obj" /\ DOMAIN v.m[k].m = {}
               \/ v.m[k].t = "arr" /\ Len(v.m[k].e) = 0
               \/ HasEmpty(v.m[k])
      [] v.t = "arr" ->
           \E i \in DOMAIN v.e :
               \/ v.e[i].t = "undef"
               \/ v.e[i].t = "obj" /\ DOMAIN v.e[i].m = {}
               \/ v.e[i].t = "arr" /\ Len(v.e[i].e) = 0
               \/ HasEmpty(v.e[i])
      [] OTHER -> FALSE

\* C7: no document toJson returns holds, at any depth, an absent value, an
\* empty mapping or an empty sequence; an attribute that is empty once its
\* nested empty values are removed ({ a: { b: [] } }) has no entry at all,
\* and one that is partly empty keeps its non-empty part only.
C7_RecursiveEmptinessFiltering ==
    \A r \in Made :
        LET d == toJson(r)
            custom == Get(heap[rec[r].attrs], "custom")
        IN  /\ ~HasEmpty(Obj(d))
            /\ custom \in {NestedEmpty, Arr(<<>>), Undef}
                  => "custom" \notin DOMAIN d
            /\ custom = PartlyEmpty => Get(d, "custom") = Obj("a" :> Num(1))
            /\ snapValid[r] => lastDoc[r] = d

\* toJson was called on a record that holds custom: { a: { b: [] } }
C7_Witness ==
    \E r \in Made :
        /\ Get(heap[rec[r].attrs], "custom") = NestedEmpty
        /\ snapValid[r]
        /\ "custom" \notin DOMAIN lastDoc[r]

\* v is neither absent nor an empty mapping nor an empty sequence
NonEmpty(v) ==
    /\ v.t # "undef"
    /\ v.t = "obj" => DOMAIN v.m # {}
    /\ v.t = "arr" => Len(v.e) > 0

\* the values last added to r, each deferred value replaced by what it produces
Produced(r) == [k \in DOMAIN added[r] |-> resolve(heap, added[r][k])]

\* r was built with no options or an empty bundle, and the only mutator calls
\* made since are add calls on r with keys other than the typed ones
OnlyAttributesAdded(r) ==
    /\ alone[r]
    /\ ctor[r].given = EmptyMap
    /\ labelLog[r] = EmptyMap
    /\ annLog[r] = EmptyMap
    /\ DOMAIN added[r] \cap TypedKeys = {}

\* C5 as stated: after add calls with values that are neither absent nor
\* empty, toJson returns exactly the mapping of each added key to its last
\* added value.
C5_Original ==
    \A r \in Made :
        /\ OnlyAttributesAdded(r)
        /\ \A k \in DOMAIN added[r] : NonEmpty(Produced(r)[k])
        => toJson(r) = Produced(r)

\* C5 amended: for a record built with no options or an empty bundle, after
\* add calls (the only mutator calls made) with untyped keys and values that
\* hold no absent or empty value at any depth, toJson returns exactly the
\* mapping of each added key to its last added value, and nothing else.
C5_AddedAttributesAppear ==
    \A r \in Made :
        /\ OnlyAttributesAdded(r)
        /\ \A k \in DOMAIN added[r] :
               NonEmpty(Produced(r)[k]) /\ ~HasEmpty(Produced(r)[k])
        => /\ toJson(r) = Produced(r)
           /\ snapValid[r] => lastDoc[r] = Produced(r)

\* two keys were added to such a record and toJson returned both
C5_Witness ==
    \E r \in Made :
        /\ OnlyAttributesAdded(r)
        /\ DOMAIN added[r] = {"custom", "extra"}
        /\ added[r]["custom"] = Num(42)
        /\ added[r]["extra"] = PlainNested
        /\ snapValid[r]
        /\ lastDoc[r] = ("custom" :> Num(42)) @@ ("extra" :> PlainNested)

FooGiven == ("name" :> Str("foo")) @@ ("labels" :> Obj("app" :> Str("bar")))

FooDocument ==
    ("name" :> Str("foo")) @@ ("labels" :> Obj("app" :> Str("bar")))
    @@ ("annotations" :> Obj("team" :> Str("x")))

\* r was given { name: "foo", labels: { app: "bar" } } and the only mutator
\* call made since is addAnnotation("team", "x") on r
FooThenTeam(r) ==
    /\ alone[r]
    /\ ctor[r].given = FooGiven
    /\ labelLog[r] = EmptyMap
    /\ added[r] = EmptyMap
    /\ annLog[r] = ("team" :> Str("x"))

\* C3: the document toJson returns has a labels key exactly when the label
\* mapping has an entry, and an annotations key exactly when the annotation
\* mapping has one; a record built with no options, before any addLabel or
\* addAnnotation on it, has neither key; { name: "foo", labels: { app: "bar" } }
\* followed by addAnnotation("team", "x") gives exactly name, labels and
\* annotations, and no namespace.
C3_EmptyCollectionsStripped ==
    \A r \in Made :
        LET d == toJson(r)
        IN  /\ "labels" \in DOMAIN d <=> DOMAIN heap[rec[r].labels] # {}
            /\ "annotations" \in DOMAIN d <=> DOMAIN heap[rec[r].annotations] # {}
            /\ (ctor[r].options = NoOptions /\ labelLog[r] = EmptyMap
                  /\ annLog[r] = EmptyMap)
                  => DOMAIN d \cap {"labels", "annotations"} = {}
            /\ FooThenTeam(r) => d = FooDocument
            /\ snapValid[r] => lastDoc[r] = d

\* toJson returned the document of the example
C3_Witness ==
    \E r \in Made :
        /\ FooThenTeam(r)
        /\ snapValid[r]
        /\ lastDoc[r] = FooDocument
        /\ "namespace" \notin DOMAIN lastDoc[r]

\* C4: a toJson call changes no field of any record and no object, and
\* returns the document the previous toJson call on the same record returned
\* when no addLabel, addAnnotation or add call was made in between.
C4_SnapshotIdempotent ==
    [][\A r \in RecIds :
          ToJson(r) =>
              /\ heap' = heap
              /\ rec' = rec
              /\ snapValid[r] => lastDoc'[r] = lastDoc[r]]_vars

\* toJson was called twice in a row on the only record, which has a name
\* and a label
C4_Witness ==
    \E r \in Made :
        /\ Made = {r}
        /\ calls = 2
        /\ \A x \in RecIds :
               labelLog[x] = EmptyMap /\ annLog[x] = EmptyMap
               /\ added[x] = EmptyMap
        /\ snapValid[r]
        /\ DOMAIN lastDoc[r] = {"name", "labels"}

LabelKeys == {i[1] : i \in LabelInputs \cup AnnotationInputs}

\* C2: getLabel(k) returns the value last passed to addLabel(k, ...) on the
\* record, whatever addLabel calls on other keys, addAnnotation, add or
\* toJson calls were made on it since; for a key that was neither among the
\* initial labels nor ever added it returns undefined.
C2_GetLabelReturnsLastAdded ==
    \A r \in Made :
        alone[r] =>
            \A k \in LabelKeys :
                IF k \in DOMAIN labelLog[r]
                THEN getLabel(r, k) = labelLog[r][k]
                ELSE k \notin ctor[r].labelKeys => getLabel(r, k) = Undef

\* some mutator call on r
MutatorOn(r) ==
    \/ \E i \in LabelInputs : AddLabel(r, i[1], i[2])
    \/ \E i \in AnnotationInputs : AddAnnotation(r, i[1], i[2])
    \/ \E i \in AddInputs : Add(r, i[1], i[2])

\* C6: an addLabel, addAnnotation or add call on one record changes neither
\* what getLabel and toJson return on another record nor an options bundle
\* of the caller.
C6_RecordOwnsItsState ==
    [][\A r \in RecIds :
          MutatorOn(r) =>
              /\ \A x \in Made \ {r} :
                     /\ ToJsonOf(heap', rec'[x]) = ToJsonOf(heap, rec[x])
                     /\ \A k \in LabelKeys :
                            GetLabelOf(heap', rec'[x], k)
                                = GetLabelOf(heap, rec[x], k)
              /\ \A o \in CallerBundles : heap'[o] = heap[o]]_vars

\* the labels and annotations entries of a document, as mappings
Entries(d, key) == IF key \in DOMAIN d THEN d[key].m ELSE EmptyMap

\* C8: the document a toJson call returns shows every addLabel,
\* addAnnotation and add (untyped key) made on the record before it, each
\* key with the value last given for it; and a mutator call leaves the
\* documents returned earlier as they were.
C8_SnapshotsReflectMutations ==
    [][\A r \in RecIds :
          /\ (ToJson(r) /\ alone[r]) =>
                 /\ \A k \in DOMAIN labelLog[r] :
                        Get(Entries(lastDoc'[r], "labels"), k) = labelLog[r][k]
                 /\ \A k \in DOMAIN annLog[r] :
                        Get(Entries(lastDoc'[r], "annotations"), k)
                            = annLog[r][k]
                 /\ \A k \in DOMAIN added[r] \ TypedKeys :
                        Get(lastDoc'[r], k) = sanitize(resolve(heap, added[r][k]))
          /\ MutatorOn(r) => lastDoc' = lastDoc]_vars

\* C10: addLabel(k, v) changes entry k of the label mapping only, and no
\* annotation, name or namespace; addAnnotation changes no label; add
\* changes neither the label nor the annotation mapping.
C10_MutatorsTouchOwnMapping ==
    [][\A r \in RecIds :
          /\ \A i \in LabelInputs :
                 AddLabel(r, i[1], i[2]) =>
                     /\ \A k \in LabelKeys \ {i[1]} :
                            GetLabelOf(heap', rec'[r], k)
                                = GetLabelOf(heap, rec[r], k)
                     /\ GetLabelOf(heap', rec'[r], i[1]) = Str(i[2])
                     /\ heap'[rec'[r].annotations] = heap[rec[r].annotations]
                     /\ rec'[r].name = rec[r].name
                     /\ rec'[r].namespace = rec[r].namespace
          /\ \A i \in AnnotationInputs :
                 AddAnnotation(r, i[1], i[2]) =>
                     /\ \A k \in LabelKeys :
                            GetLabelOf(heap', rec'[r], k)
                                = GetLabelOf(heap, rec[r], k)
                     /\ Get(heap'[rec'[r].annotations], i[1]) = Str(i[2])
          /\ \A i \in AddInputs :
                 Add(r, i[1], i[2]) =>
                     /\ heap'[rec'[r].labels] = heap[rec[r].labels]
                     /\ heap'[rec'[r].annotations] = heap[rec[r].annotations]]_vars

====
